---- MODULE Spec2Model ----
(***************************************************************************)
(* Model of the forecast normalisation pipeline of the weather dashboard:  *)
(* extract.extract_data (raw OpenWeatherMap slots -> ordered series with   *)
(* derived heat index, wind chill and dew point).                          *)
(*                                                                         *)
(* Numbers.  A Python float x is modelled by the integer x * 10^4          *)
(* (fixed point, four decimals).  The raw inputs of the model carry at     *)
(* most three decimals, so every product and quotient the code forms on    *)
(* the way to a stored field is exact in this representation, or is        *)
(* computed exactly over integers of arbitrary size (sequences of limbs)   *)
(* and cut to four decimals only before the final round().                 *)
(***************************************************************************)
EXTENDS Integers, Sequences, FiniteSets, TLC

\* One unit of the fixed-point representation: 1.0 is Fx.
Fx == 100 * 100

(***************************************************************************)
(* Integers of arbitrary size.  TLC's integers are 32 bits wide; the       *)
(* polynomials of extract.py need more.  A magnitude is a sequence of      *)
(* limbs in base 10^4, least significant first; a big integer is a         *)
(* magnitude with a sign.                                                  *)
(***************************************************************************)
LimbBase == 100 * 100

RECURSIVE MagFromNat(_)
MagFromNat(n) ==
    IF n = 0 THEN <<>> ELSE <<n % LimbBase>> \o MagFromNat(n \div LimbBase)

RECURSIVE MagNorm(_)
MagNorm(a) ==
    IF a = <<>> THEN <<>>
    ELSE IF a[Len(a)] = 0 THEN MagNorm(SubSeq(a, 1, Len(a) - 1))
    ELSE a

RECURSIVE MagAddC(_, _, _)
MagAddC(a, b, c) ==
    IF a = <<>> /\ b = <<>>
    THEN (IF c = 0 THEN <<>> ELSE <<c>>)
    ELSE LET x  == (IF a = <<>> THEN 0 ELSE Head(a))
                   + (IF b = <<>> THEN 0 ELSE Head(b)) + c
             ta == IF a = <<>> THEN <<>> ELSE Tail(a)
             tb == IF b = <<>> THEN <<>> ELSE Tail(b)
         IN  <<x % LimbBase>> \o MagAddC(ta, tb, x \div LimbBase)

MagAdd(a, b) == MagAddC(a, b, 0)

\* a - b for a >= b, with borrow c.
RECURSIVE MagSubC(_, _, _)
MagSubC(a, b, c) ==
    IF a = <<>> THEN <<>>
    ELSE LET x  == Head(a) - (IF b = <<>> THEN 0 ELSE Head(b)) - c
             tb == IF b = <<>> THEN <<>> ELSE Tail(b)
         IN  IF x < 0
             THEN <<x + LimbBase>> \o MagSubC(Tail(a), tb, 1)
             ELSE <<x>> \o MagSubC(Tail(a), tb, 0)

MagSub(a, b) == MagNorm(MagSubC(a, b, 0))

\* a * k + c for one limb k.
RECURSIVE MagMulLimb(_, _, _)
MagMulLimb(a, k, c) ==
    IF a = <<>>
    THEN (IF c = 0 THEN <<>> ELSE <<c>>)
    ELSE LET x == Head(a) * k + c
         IN  <<x % LimbBase>> \o MagMulLimb(Tail(a), k, x \div LimbBase)

RECURSIVE MagMul(_, _)
MagMul(a, b) ==
    IF b = <<>> \/ a = <<>> THEN <<>>
    ELSE LET rest == MagMul(a, Tail(b))
         IN  MagAdd(MagMulLimb(a, Head(b), 0),
                    IF rest = <<>> THEN <<>> ELSE <<0>> \o rest)

\* -1, 0 or 1 as a < b, a = b, a > b; both normalised.
RECURSIVE MagCmpFrom(_, _, _)
MagCmpFrom(a, b, i) ==
    IF i = 0 THEN 0
    ELSE IF a[i] < b[i] THEN -1
    ELSE IF a[i] > b[i] THEN 1
    ELSE MagCmpFrom(a, b, i - 1)

MagCmp(a, b) ==
    IF Len(a) < Len(b) THEN -1
    ELSE IF Len(a) > Len(b) THEN 1
    ELSE MagCmpFrom(a, b, Len(a))

\* The largest q in lo..hi with den * q <= num (den > 0, the answer in lo..hi).
RECURSIVE MagDivSearch(_, _, _, _)
MagDivSearch(num, den, lo, hi) ==
    IF lo = hi THEN lo
    ELSE LET mid == lo + (hi - lo + 1) \div 2
         IN  IF MagCmp(MagMul(den, MagFromNat(mid)), num) <= 0
             THEN MagDivSearch(num, den, mid, hi)
             ELSE MagDivSearch(num, den, lo, mid - 1)

\* floor(num / den); the quotients of the model stay below 2^30.  The
\* quotient has at most Len(num) - Len(den) + 1 limbs.
MagDivFloor(num, den) ==
    LET d == Len(num) - Len(den)
    IN  IF d < 0 THEN 0
        ELSE IF d = 0 THEN MagDivSearch(num, den, 0, LimbBase - 1)
        ELSE IF d = 1 THEN MagDivSearch(num, den, 0, LimbBase * LimbBase - 1)
        ELSE MagDivSearch(num, den, 0, 1073741823)

Abs(n) == IF n < 0 THEN -n ELSE n

Big(n) == [neg |-> n < 0, mag |-> MagFromNat(Abs(n))]

BigNeg(x) == [neg |-> (~x.neg) /\ x.mag # <<>>, mag |-> x.mag]

BigAdd(x, y) ==
    IF x.neg = y.neg
    THEN [neg |-> x.neg, mag |-> MagAdd(x.mag, y.mag)]
    ELSE LET c == MagCmp(x.mag, y.mag)
         IN  IF c = 0 THEN [neg |-> FALSE, mag |-> <<>>]
             ELSE IF c > 0 THEN [neg |-> x.neg, mag |-> MagSub(x.mag, y.mag)]
             ELSE [neg |-> y.neg, mag |-> MagSub(y.mag, x.mag)]

BigSub(x, y) == BigAdd(x, BigNeg(y))

BigMul(x, y) ==
    LET m == MagMul(x.mag, y.mag)
    IN  [neg |-> (x.neg # y.neg) /\ m # <<>>, mag |-> m]

\* floor(x / y) for y > 0, as an integer.
BigDivFloor(x, y) ==
    LET q == MagDivFloor(x.mag, y.mag)
    IN  IF ~x.neg THEN q
        ELSE IF MagCmp(MagMul(y.mag, MagFromNat(q)), x.mag) = 0 THEN -q
        ELSE -(q + 1)

\* floor(a * b / c) for integers a, b and c > 0.
MulDiv(a, b, c) == BigDivFloor(BigMul(Big(a), Big(b)), Big(c))

RECURSIVE BigPow(_, _)
BigPow(x, n) == IF n = 0 THEN Big(1) ELSE BigMul(x, BigPow(x, n - 1))

(***************************************************************************)
(* Python's round(x, ndigits) on a float, for a value x given in fixed     *)
(* point: the nearest multiple of `unit` (Fx / 10^ndigits).  A value       *)
(* exactly half way goes to the even multiple, as round() does for a       *)
(* float that is exactly half way; the inputs of the model stay off the    *)
(* decimal half-way points, whose float images are not half way.           *)
(***************************************************************************)
round(v, unit) ==
    LET q == v \div unit
        r == v % unit
    IN  IF 2 * r < unit THEN q * unit
        ELSE IF 2 * r > unit THEN (q + 1) * unit
        ELSE IF q % 2 = 0 THEN q * unit
        ELSE (q + 1) * unit

\* round(v, 1), round(v, 2), round(v, 0)
Round1(v) == round(v, Fx \div 10)
Round2(v) == round(v, Fx \div 100)
Round0(v) == round(v, Fx)

(***************************************************************************)
(* _heat_index (extract.py 9-22): the nine-term Rothfusz regression.       *)
(* t = temp_c * 9/5 + 32 is held exactly as T / (5 * Fx), rh as H / Fx,    *)
(* the coefficients as integers over 10^8; the polynomial is summed        *)
(* exactly over the common denominator HiDen and converted back to         *)
(* Celsius, (hi - 32) * 5 / 9, with a single floor to four decimals.       *)
(***************************************************************************)
Ten(n) == BigPow(Big(10), n)

HiSt == Big(5 * Fx)
HiSh == Big(Fx)
HiDen == BigMul(Ten(8), BigMul(BigPow(HiSt, 2), BigPow(HiSh, 2)))

\* coefficient c / 10^8 times t^a * rh^b, over HiDen
HiTerm(c, T, a, H, b) ==
    BigMul(c, BigMul(BigMul(BigPow(T, a), BigPow(HiSt, 2 - a)),
                     BigMul(BigPow(H, b), BigPow(HiSh, 2 - b))))

\* hi of _heat_index (degrees Fahrenheit), over HiDen
Rothfusz(temp_c, rh) ==
    LET T == Big(9 * temp_c + 32 * 5 * Fx)
        H == Big(rh)
    IN  BigAdd(HiTerm(BigMul(Big(-42379), Ten(5)), T, 0, H, 0),
        BigAdd(HiTerm(Big(204901523), T, 1, H, 0),
        BigAdd(HiTerm(Big(1014333127), T, 0, H, 1),
        BigAdd(HiTerm(Big(-22475541), T, 1, H, 1),
        BigAdd(HiTerm(Big(-683783), T, 2, H, 0),
        BigAdd(HiTerm(Big(-5481717), T, 0, H, 2),
        BigAdd(HiTerm(Big(122874), T, 2, H, 1),
        BigAdd(HiTerm(Big(85282), T, 1, H, 2),
               HiTerm(Big(-199), T, 2, H, 2)))))))))

\* mutant: the last coefficient, -0.00000199, taken positive
_heat_index_last_term_positive(temp_c, rh) ==
    LET T  == Big(9 * temp_c + 32 * 5 * Fx)
        H  == Big(rh)
        hi == BigAdd(Rothfusz(temp_c, rh),
                     BigMul(Big(2), HiTerm(Big(199), T, 2, H, 2)))
    IN  BigDivFloor(BigMul(BigSub(hi, BigMul(Big(32), HiDen)), Big(5 * Fx)),
                    BigMul(Big(9), HiDen))

\* (hi - 32) * 5 / 9
_heat_index(temp_c, rh) ==
    BigDivFloor(BigMul(BigSub(Rothfusz(temp_c, rh), BigMul(Big(32), HiDen)),
                       Big(5 * Fx)),
                BigMul(Big(9), HiDen))

(***************************************************************************)
(* math.log (extract.py 36), as an integer over 10^8.  For a positive      *)
(* integer n with 2^k <= n < 2^(k+1):                                      *)
(*     ln n = k * ln 2 + 2 * atanh((n - 2^k) / (n + 2^k)),                 *)
(*     atanh z = z + z^3/3 + z^5/5 + ...     (z < 1/3: twelve terms)       *)
(* and ln 2 = 2 * atanh(1/3).                                              *)
(***************************************************************************)
LnOne == 100 * 1000 * 1000

\* floor(a * b / LnOne) for 0 <= a, b < LnOne, within 32 bits: with
\* a = a1 * 10^4 + a0 and b = b1 * 10^4 + b0,
\* a * b / 10^8 = a1 * b1 + (a1 * b0 + a0 * b1 + a0 * b0 / 10^4) / 10^4
LnMul(a, b) ==
    LET a1 == a \div LimbBase
        a0 == a % LimbBase
        b1 == b \div LimbBase
        b0 == b % LimbBase
    IN  a1 * b1 + (a1 * b0 + a0 * b1 + (a0 * b0) \div LimbBase) \div LimbBase

RECURSIVE AtanhSum(_, _, _, _)
AtanhSum(pow, z2, j, n) ==
    IF j = n THEN 0
    ELSE pow \div (2 * j + 1) + AtanhSum(LnMul(pow, z2), z2, j + 1, n)

Atanh(z) == AtanhSum(z, LnMul(z, z), 0, 12)

Ln2 == 2 * Atanh(LnOne \div 3)

RECURSIVE Log2Floor(_)
Log2Floor(n) == IF n < 2 THEN 0 ELSE 1 + Log2Floor(n \div 2)

RECURSIVE Pow2(_)
Pow2(k) == IF k = 0 THEN 1 ELSE 2 * Pow2(k - 1)

LnNat(n) ==
    LET k == Log2Floor(n)
        p == Pow2(k)
    IN  k * Ln2 + 2 * Atanh(MulDiv(n - p, LnOne, n + p))

\* math.log(100.0), with 100.0 in fixed point
Ln100 == LnNat(100 * Fx)

\* math.log(rh / 100.0) for rh > 0 in fixed point
LogPct(rh) == LnNat(rh) - Ln100

(***************************************************************************)
(* wind_kmh ** 0.16 (extract.py 29-30), as an integer over 10^8:           *)
(*     x ** 0.16 = exp(0.16 * ln x),   exp y = 1 + y + y^2/2! + ...        *)
(* for x >= 1 with 0.16 * ln x < 1 (x below 500 km/h): sixteen terms.      *)
(***************************************************************************)
RECURSIVE ExpSum(_, _, _, _)
ExpSum(term, y, k, n) ==
    IF k = n THEN 0
    ELSE term + ExpSum(LnMul(term, y) \div (k + 1), y, k + 1, n)

Exp(y) == ExpSum(LnOne, y, 0, 16)

Pow016(wind_kmh) ==
    LET ln == LnNat(wind_kmh) - LnNat(Fx)
    IN  Exp((ln \div 25) * 4 + ((ln % 25) * 4) \div 25)

(***************************************************************************)
(* _wind_chill (extract.py 25-31): the JAG/TI formula, summed exactly      *)
(* over the denominator 10^4 (coefficients) * Fx (temp) * 10^8 (power).    *)
(***************************************************************************)
_wind_chill(temp_c, wind_kmh) ==
    LET P == Big(Pow016(wind_kmh))
        T == Big(temp_c)
        n == BigAdd(BigMul(Big(131200), Ten(12)),
             BigAdd(BigMul(Big(6215), BigMul(T, Ten(8))),
             BigAdd(BigMul(Big(-113700), BigMul(P, Ten(4))),
                    BigMul(Big(3965), BigMul(T, P)))))
    IN  BigDivFloor(n, Ten(12))

(***************************************************************************)
(* _dew_point (extract.py 34-37): the Magnus formula, a = 17.27,           *)
(* b = 237.7.  gamma is held over 10^8.  The two divisions raise           *)
(* ZeroDivisionError when their divisor is 0.0.                            *)
(***************************************************************************)
MagnusA == 1727 * (LnOne \div 100)
MagnusB == 2377 * (Fx \div 10)

\* floor(n / d) for big integers n and d # 0
BigDiv(n, d) ==
    IF d.neg THEN BigDivFloor(BigNeg(n), BigNeg(d)) ELSE BigDivFloor(n, d)

BigZero(n) == n.mag = <<>>

\* gamma = (a * temp_c / (b + temp_c)) + math.log(rh / 100.0)
DewGamma(temp_c, rh) ==
    BigAdd(Big(BigDiv(BigMul(Big(MagnusA), Big(temp_c)), Big(MagnusB + temp_c))),
           Big(LogPct(rh)))

\* the exception _dew_point raises, "none" when it returns: the division
\* by b + temp_c comes first, then math.log, which raises ValueError for
\* a number that is not positive, then the division by a - gamma
_dew_point_exception(temp_c, rh) ==
    IF MagnusB + temp_c = 0 THEN "ZeroDivisionError"
    ELSE IF rh <= 0 THEN "ValueError"
    ELSE IF BigZero(BigSub(Big(MagnusA), DewGamma(temp_c, rh)))
    THEN "ZeroDivisionError"
    ELSE "none"

\* (b * gamma) / (a - gamma)
_dew_point(temp_c, rh) ==
    LET gamma == DewGamma(temp_c, rh)
    IN  BigDiv(BigMul(Big(MagnusB), gamma), BigSub(Big(MagnusA), gamma))

(***************************************************************************)
(* Raw JSON values.  A numeric field of a slot is absent (the key is not   *)
(* in its dict), null, a number, a string float() accepts ("12.5"), a      *)
(* string it rejects ("n/a": ValueError) or a list/dict (TypeError).       *)
(* A text field is absent, null or a string.                               *)
(***************************************************************************)
Absent == [kind |-> "absent", n |-> 0]
Null == [kind |-> "null", n |-> 0]
Num(n) == [kind |-> "num", n |-> n]
NumStr(n) == [kind |-> "numstr", n |-> n]
Str == [kind |-> "str", n |-> 0]
Obj == [kind |-> "obj", n |-> 0]

TAbsent == [kind |-> "absent", s |-> ""]
TNull == [kind |-> "null", s |-> ""]
Text(s) == [kind |-> "str", s |-> s]

\* mutant: the default of .get is dropped, an absent key reads as None
Get_without_default(d, key, default) == IF d[key].kind = "absent" THEN Null ELSE d[key]

\* d.get(key, default) on a dict d
Get(d, key, default) == IF d[key].kind = "absent" THEN default ELSE d[key]

\* _safe's default for its parameter `fallback`
SafeFallback == 0

\* _safe(val, fallback): float(val), or fallback for None, TypeError, ValueError
_safe(val, fallback) ==
    IF val.kind = "null" THEN fallback
    ELSE IF val.kind \in {"num", "numstr"} THEN val.n
    ELSE fallback

(***************************************************************************)
(* A raw slot.  Each nested group carries its own kind: "dict" (as the     *)
(* provider sends it), "absent", "null", or "str" (some other type).       *)
(* weather is a list: "list" (one dict), "empty" ([]), "listnull"          *)
(* ([null]), or "absent", "null", "str".                                   *)
(***************************************************************************)
MainDict(temp, feels_like, temp_min, temp_max, humidity, pressure) ==
    [kind |-> "dict", temp |-> temp, feels_like |-> feels_like,
     temp_min |-> temp_min, temp_max |-> temp_max,
     humidity |-> humidity, pressure |-> pressure]

WindDict(speed, deg) == [kind |-> "dict", speed |-> speed, deg |-> deg]

CloudsDict(all) == [kind |-> "dict", all |-> all]

WeatherList(description, icon) ==
    [kind |-> "list", description |-> description, icon |-> icon]

\* a group that is not the dict it should be: {} stands for its content
NoMain(kind) == [MainDict(Absent, Absent, Absent, Absent, Absent, Absent)
                 EXCEPT !.kind = kind]
NoWind(kind) == [WindDict(Absent, Absent) EXCEPT !.kind = kind]
NoClouds(kind) == [CloudsDict(Absent) EXCEPT !.kind = kind]
NoWeather(kind) == [WeatherList(TAbsent, TAbsent) EXCEPT !.kind = kind]

Slot(main, wind, clouds, weather, pop, visibility, dt_txt) ==
    [main |-> main, wind |-> wind, clouds |-> clouds, weather |-> weather,
     pop |-> pop, visibility |-> visibility, dt_txt |-> dt_txt]

(***************************************************************************)
(* One pass of the loop of extract_data (extract.py 69-125).               *)
(***************************************************************************)
\* item.get(group, {}) and item.get("weather", [{}]): the dict then read;
\* a call of .get on None or on a str raises AttributeError
GroupRaises(g) == g.kind \in {"null", "str"}

\* weather_arr[0] if weather_arr else {}: None and [] are falsy,
\* [None][0] is None and "rain"[0] is a str, neither has .get
WeatherRaises(w) == w.kind \in {"listnull", "str"}

\* mutant: the humidity is handed to _dew_point as it is
HumidityFloor_missing(humidity) == humidity

\* max(humidity, 1)
HumidityFloor(humidity) == IF humidity > Fx THEN humidity ELSE Fx

\* the exception one slot raises, "none" when it yields a row
SlotException(item) ==
    LET temp     == _safe(Get(item.main, "temp", Null), SafeFallback)
        humidity == _safe(Get(item.main, "humidity", Num(0)), SafeFallback)
    IN  IF GroupRaises(item.main) \/ GroupRaises(item.wind)
           \/ GroupRaises(item.clouds) \/ WeatherRaises(item.weather)
        THEN "AttributeError"
        ELSE _dew_point_exception(temp, HumidityFloor(humidity))

\* mutant: the boundary 1.0 is taken for a percentage
PopPercent_below_one(raw_pop) == IF raw_pop < Fx THEN raw_pop * 100 ELSE raw_pop

\* raw_pop * 100 if raw_pop <= 1 else raw_pop
PopPercent(raw_pop) == IF raw_pop <= Fx THEN raw_pop * 100 ELSE raw_pop

\* mutant: the gate is tested on the rounded values
HeatGate_on_rounded(temp, humidity) ==
    Round1(temp) >= 27 * Fx /\ Round1(humidity) >= 40 * Fx

\* temp >= 27 and humidity >= 40
HeatGate(temp, humidity) == temp >= 27 * Fx /\ humidity >= 40 * Fx

\* mutant: the gate is tested on the wind speed in m/s
ChillGate_on_metres_per_second(temp, wind_kmh) ==
    temp <= 10 * Fx /\ (wind_kmh * 10) \div 36 >= 48 * (Fx \div 10)

\* temp <= 10 and wind_kmh >= 4.8
ChillGate(temp, wind_kmh) == temp <= 10 * Fx /\ wind_kmh >= 48 * (Fx \div 10)

\* wind_speed * 3.6
WindKmh(wind_speed) == (wind_speed * 36) \div 10

\* the dict appended to rows for a slot that raises nothing; "time" is
\* still the raw dt_txt
SlotRow(item) ==
    LET main        == item.main
        wind        == item.wind
        weather_desc == item.weather
        temp        == _safe(Get(main, "temp", Null), SafeFallback)
        feels_like  == _safe(Get(main, "feels_like", Num(temp)), SafeFallback)
        temp_min    == _safe(Get(main, "temp_min", Num(temp)), SafeFallback)
        temp_max    == _safe(Get(main, "temp_max", Num(temp)), SafeFallback)
        humidity    == _safe(Get(main, "humidity", Num(0)), SafeFallback)
        pressure    == _safe(Get(main, "pressure", Num(1013 * Fx)), SafeFallback)
        wind_speed  == _safe(Get(wind, "speed", Num(0)), SafeFallback)
        wind_deg    == _safe(Get(wind, "deg", Num(0)), SafeFallback)
        clouds      == _safe(Get(item.clouds, "all", Num(0)), SafeFallback)
        raw_pop     == _safe(Get(item, "pop", Num(0)), SafeFallback)
        pop         == PopPercent(raw_pop)
        visibility  == _safe(Get(item, "visibility", Num(10000 * Fx)),
                             SafeFallback) \div 1000
        desc        == IF weather_desc.description.kind = "absent"
                       THEN Text("") ELSE weather_desc.description
        icon        == IF weather_desc.icon.kind = "absent"
                       THEN Text("01d") ELSE weather_desc.icon
        wind_kmh    == WindKmh(wind_speed)
        hi          == IF HeatGate(temp, humidity)
                       THEN _heat_index(temp, humidity) ELSE temp
        wc          == IF ChillGate(temp, wind_kmh)
                       THEN _wind_chill(temp, wind_kmh) ELSE temp
        dp          == _dew_point(temp, HumidityFloor(humidity))
    IN  [time        |-> IF item.dt_txt.kind = "absent"
                         THEN Text("") ELSE item.dt_txt,
         temp        |-> Round1(temp),
         temp_min    |-> Round1(temp_min),
         temp_max    |-> Round1(temp_max),
         feels_like  |-> Round1(feels_like),
         humidity    |-> Round1(humidity),
         pressure    |-> Round1(pressure),
         wind_speed  |-> Round2(wind_speed),
         wind_kmh    |-> Round1(wind_kmh),
         wind_deg    |-> Round0(wind_deg),
         pop         |-> Round1(pop),
         clouds      |-> Round0(clouds),
         visibility  |-> Round2(visibility),
         description |-> desc,
         icon        |-> icon,
         heat_index  |-> Round1(hi),
         wind_chill  |-> Round1(wc),
         dew_point   |-> Round1(dp)]

(***************************************************************************)
(* The frame (extract.py 127-134).  A timestamp is the number of hours     *)
(* since 2024-01-01 00:00; NaT is what pd.to_datetime(errors="coerce")     *)
(* yields for None and for a string that is no timestamp.                  *)
(***************************************************************************)
NaT == -1

to_datetime(v) ==
    IF v.kind # "str" THEN NaT
    ELSE CASE v.s = "2024-01-01 00:00:00" -> 0
           [] v.s = "2024-01-01 03:00:00" -> 3
           [] v.s = "2024-01-01 06:00:00" -> 6
           [] v.s = "2024-01-02 00:00:00" -> 24
           [] OTHER -> NaT

\* df["time"] = pd.to_datetime(df["time"], errors="coerce")
RECURSIVE ParseTimes(_)
ParseTimes(rows) ==
    IF rows = <<>> THEN <<>>
    ELSE <<[Head(rows) EXCEPT !.time = to_datetime(Head(rows).time)]>>
         \o ParseTimes(Tail(rows))

\* mutant: the rows without a time are kept
dropna_keeps_all(rows) == rows

\* df.dropna(subset=["time"]): the rows with a time, in their order
RECURSIVE dropna(_)
dropna(rows) ==
    IF rows = <<>> THEN <<>>
    ELSE IF Head(rows).time = NaT THEN dropna(Tail(rows))
    ELSE <<Head(rows)>> \o dropna(Tail(rows))

\* mutant: the sort compares nothing, any order of the rows passes for sorted
IsSorted_unchecked(rows) == TRUE

IsSorted(rows) ==
    \A i \in 1..(Len(rows) - 1) : rows[i].time <= rows[i + 1].time

\* sort_values("time") sorts with quicksort, which is not stable: every
\* ascending arrangement of the rows is a possible outcome
RECURSIVE Permuted(_, _, _)
Permuted(rows, p, i) ==
    IF i > Len(rows) THEN <<>>
    ELSE <<rows[p[i]]>> \o Permuted(rows, p, i + 1)

\* mutant: the frame is left in the order of the slots
sort_values_keeps_order(rows) == {rows}

sort_values(rows) ==
    { s \in { Permuted(rows, p, 1) : p \in Permutations(1..Len(rows)) } :
        IsSorted(s) }

\* the strftime columns, as projections of the time: the calendar day
\* (day_label), the hour of the day (hour_label), both (datetime_str)
WithLabels(r) ==
    [time |-> r.time, temp |-> r.temp,
     temp_min |-> r.temp_min, temp_max |-> r.temp_max,
     feels_like |-> r.feels_like, humidity |-> r.humidity,
     pressure |-> r.pressure, wind_speed |-> r.wind_speed,
     wind_kmh |-> r.wind_kmh, wind_deg |-> r.wind_deg,
     pop |-> r.pop, clouds |-> r.clouds, visibility |-> r.visibility,
     description |-> r.description, icon |-> r.icon,
     heat_index |-> r.heat_index, wind_chill |-> r.wind_chill,
     dew_point |-> r.dew_point,
     day_label |-> r.time \div 24,
     hour_label |-> r.time % 24,
     datetime_str |-> <<r.time \div 24, r.time % 24>>]

RECURSIVE Labelled(_)
Labelled(rows) ==
    IF rows = <<>> THEN <<>>
    ELSE <<WithLabels(Head(rows))>> \o Labelled(Tail(rows))

\* the first exception the loop raises over list_data, "none" if none does
RECURSIVE LoopException(_)
LoopException(list_data) ==
    IF list_data = <<>> THEN "none"
    ELSE IF SlotException(Head(list_data)) # "none"
    THEN SlotException(Head(list_data))
    ELSE LoopException(Tail(list_data))

\* rows, after the loop
RECURSIVE LoopRows(_)
LoopRows(list_data) ==
    IF list_data = <<>> THEN <<>>
    ELSE <<SlotRow(Head(list_data))>> \o LoopRows(Tail(list_data))

(***************************************************************************)
(* The inputs.  data is the dict handed to extract_data: "list" is absent, *)
(* null or a list of slots, "city" is absent, null or a dict with or       *)
(* without a name.                                                         *)
(***************************************************************************)
MaxSlots == 3

BaseMain(temp) == MainDict(temp, Absent, Absent, Absent, Num(50 * Fx), Num(1013 * Fx))
BaseWind == WindDict(Num(3 * Fx), Num(180 * Fx))
BaseClouds == CloudsDict(Num(20 * Fx))
BaseWeather == WeatherList(Text("clear sky"), Text("01d"))
BaseDt == Text("2024-01-01 00:00:00")

BaseSlot(main) ==
    Slot(main, BaseWind, BaseClouds, BaseWeather, Num(Fx \div 5), Num(10000 * Fx), BaseDt)

\* timestamps: three that parse (two slots may share one), one that does
\* not, none at all
DtPool ==
    { Text("2024-01-01 00:00:00"), Text("2024-01-01 03:00:00"),
      Text("2024-01-02 00:00:00"), Text("not a date"), TAbsent }

\* slots that differ in timestamp; two more share the first timestamp at
\* another temperature, one parseable and one not
TimeSlots ==
    { [BaseSlot(BaseMain(Num(5 * Fx))) EXCEPT !.dt_txt = d] : d \in DtPool }
    \cup { [BaseSlot(BaseMain(Num(15 * Fx))) EXCEPT !.dt_txt = d] :
             d \in {Text("2024-01-01 00:00:00"), Text("not a date")} }

RECURSIVE SeqsUpTo(_, _)
SeqsUpTo(S, n) ==
    IF n = 0 THEN {<<>>}
    ELSE LET shorter == SeqsUpTo(S, n - 1)
         IN  shorter \cup { Append(q, e) : q \in shorter, e \in S }

\* one slot per numeric field fallback: absent, null, not a number, a number
FallbackSlots ==
    { [BaseSlot([BaseMain(Num(12 * Fx)) EXCEPT !.pressure = p, !.humidity = h])
         EXCEPT !.clouds = CloudsDict(c), !.visibility = v] :
        p \in {Absent, Null, Str, Num(998 * Fx)},
        h \in {Absent, Null, Obj, Num(65 * Fx)},
        c \in {Absent, Null, Str, NumStr(75 * Fx)},
        v \in {Absent, Null, Str, Num(8000 * Fx)} }

\* feels_like, temp_min, temp_max absent, null or given, over three
\* primary temperatures (one of them absent)
TempSlots ==
    { BaseSlot([BaseMain(t) EXCEPT !.feels_like = f, !.temp_min = lo, !.temp_max = hi]) :
        t \in {Num(-32000), Num(214700), Absent},
        f \in {Absent, Null, Num(193000)},
        lo \in {Absent, Null, Num(180400)},
        hi \in {Absent, Null, Num(239600)} }

\* precipitation probabilities on both sides of 1.0
PopSlots ==
    { [BaseSlot(BaseMain(Num(12 * Fx))) EXCEPT !.pop = q] :
        q \in {Absent, Null, Str, NumStr(3000), Num(-5000), Num(0), Num(40),
               Num(4500), Num(4560), Num(9990), Num(Fx), Num(10100),
               Num(15000), Num(45 * Fx), Num(100 * Fx)} }

\* temperature, humidity and wind on both sides of the gates of the
\* heat index (27 C, 40 %) and of the wind chill (10 C, 4.8 km/h)
GateTemps ==
    { -20 * Fx, 0, 99600, 10 * Fx, 100400, 101000, 20 * Fx,
      269000, 269600, 27 * Fx, 270400, 35 * Fx }
GateHumidities == { Absent, Num(30 * Fx), Num(399600), Num(40 * Fx), Num(400400), Num(90 * Fx) }
GateWinds == { 0, 13300, 13400, 55600, 15 * Fx }

GateSlots ==
    { [BaseSlot([BaseMain(Num(t)) EXCEPT !.humidity = h])
         EXCEPT !.wind = WindDict(Num(w), Num(180 * Fx))] :
        t \in GateTemps, h \in GateHumidities, w \in GateWinds }

\* groups of the wrong shape, and the temperature at which b + temp_c = 0
ShapeSlots ==
    { Slot(m, w, c, d, Num(Fx \div 5), Num(10000 * Fx), BaseDt) :
        m \in {BaseMain(Num(12 * Fx)), NoMain("absent"), NoMain("null"), NoMain("str")},
        w \in {BaseWind, NoWind("absent"), NoWind("null"), NoWind("str")},
        c \in {BaseClouds, NoClouds("absent"), NoClouds("null"), NoClouds("str")},
        d \in {BaseWeather, WeatherList(TAbsent, TAbsent), NoWeather("absent"),
               NoWeather("null"), NoWeather("empty"), NoWeather("listnull"),
               NoWeather("str")} }
    \cup { BaseSlot(BaseMain(Num(-MagnusB))) }

\* humidities on both sides of the floor of the dew point (1 %): none,
\* zero, negative, a fraction of a percent, one percent and above
DewHumidities ==
    { Absent, Null, Str, Num(-5 * Fx), Num(0), Num(1), Num(5000), Num(9999),
      Num(Fx), Num(10001), Num(2 * Fx), Num(10 * Fx) }

DewSlots ==
    { BaseSlot([BaseMain(Num(t)) EXCEPT !.humidity = h]) :
        t \in { -10 * Fx, 12 * Fx, 30 * Fx }, h \in DewHumidities }

ProbeSlots ==
    FallbackSlots \cup TempSlots \cup PopSlots \cup GateSlots \cup ShapeSlots
    \cup DewSlots

ListOf(items) == [kind |-> "list", items |-> items]
NoList(kind) == [kind |-> kind, items |-> <<>>]
CityDict(name) == [kind |-> "dict", name |-> name]
NoCity(kind) == [kind |-> kind, name |-> TAbsent]

Data(list, city) == [list |-> list, city |-> city]

Inputs ==
    { Data(ListOf(q), CityDict(Text("Chennai"))) : q \in SeqsUpTo(TimeSlots, MaxSlots) }
    \cup { Data(ListOf(<<s>>), CityDict(Text("Chennai"))) : s \in ProbeSlots }
    \cup { Data(l, c) :
             l \in { NoList("absent"), NoList("null"), ListOf(<<>>),
                     ListOf(<<BaseSlot(BaseMain(Num(12 * Fx)))>>),
                     ListOf(<<[BaseSlot(BaseMain(Num(12 * Fx))) EXCEPT !.dt_txt = TNull]>>),
                     ListOf(<<[BaseSlot(BaseMain(Num(12 * Fx))) EXCEPT !.dt_txt = Text("")]>>) },
             c \in { CityDict(Text("Chennai")), CityDict(TAbsent),
                     NoCity("absent"), NoCity("null") } }

(***************************************************************************)
(* The state: the dict passed to extract_data, where the call stands, and  *)
(* what it gave: the frame and the city it returned, or the exception      *)
(* that left it.  given is the dict as the caller built it; summary is     *)
(* the digest compute_summary returned; first is what an earlier call      *)
(* left, pc = "none" when there was none; memo is the last frame           *)
(* sort_values was handed, and the order it gave.  The rest is the state   *)
(* of main: what it runs in (env), the CSV files of the working directory  *)
(* (files), what fetch_all returned (forecast), the functions called so    *)
(* far in this run (calls), the exit status, and the number of runs.       *)
(***************************************************************************)
VARIABLES data, pc, df, city, exc, given, summary, first, memo,
          env, files, forecast, calls, status, runs

vars == <<data, pc, df, city, exc, given, summary, first, memo,
          env, files, forecast, calls, status, runs>>

\* the state of main, which extract_data and compute_summary never touch
process == <<env, files, forecast, calls, status, runs>>

\* the dict compute_summary returns for an empty frame: {}
EmptyDigest == [k \in {} |-> 0]

NoRun ==
    [pc |-> "none", data |-> Data(NoList("absent"), NoCity("absent")),
     df |-> <<>>, city |-> "", exc |-> "none", summary |-> EmptyDigest]

\* nothing sorted yet; the empty frame sorts to itself
NoMemo == [frame |-> <<>>, sorted |-> <<>>]

\* no key, nothing typed, nothing fetched: extract_data called on its own
NoEnv == [key |-> FALSE, live |-> "ok", body |-> NoRun.data, city_input |-> ""]
NoForecast == [kind |-> "None", value |-> NoRun.data, rows |-> <<>>]

\* a call of extract_data(d) about to start, nothing computed before it
Fresh(d) ==
    /\ data = d
    /\ given = d
    /\ pc = "call"
    /\ df = <<>>
    /\ city = ""
    /\ exc = "none"
    /\ summary = EmptyDigest
    /\ first = NoRun
    /\ memo = NoMemo
    /\ env = NoEnv
    /\ files = {}
    /\ forecast = NoForecast
    /\ calls = <<>>
    /\ status = "running"
    /\ runs = 0

Init == \E d \in Inputs : Fresh(d)

\* data.get("list", [])
ListData(d) == IF d.list.kind = "list" THEN d.list.items ELSE <<>>

\* data.get("city", {}).get("name", "Unknown City")
CityRaises(d) == d.city.kind = "null"
CityName(d) ==
    IF d.city.kind = "dict" /\ d.city.name.kind # "absent"
    THEN d.city.name.s ELSE "Unknown City"

Raise(e) ==
    /\ pc' = "raised"
    /\ exc' = e
    /\ df' = <<>>
    /\ city' = ""

Return(frame, name) ==
    /\ pc' = "returned"
    /\ exc' = "none"
    /\ df' = frame
    /\ city' = name

\* mutant: a sort whose order among equal times changes from call to call
SortOutcomes_unrepeatable(frame) == sort_values(frame)

\* sort_values is a deterministic algorithm: the frame it sorted last it
\* sorts to the same order again; any other frame to any ascending order
SortOutcomes(frame) ==
    IF memo.frame = frame THEN {memo.sorted} ELSE sort_values(frame)

\* extract_data(data), from the call to its return or to the exception
\* that leaves it
extract_data ==
    /\ pc = "call"
    /\ UNCHANGED <<data, given, summary, first, process>>
    /\ LET list_data == ListData(data)
       IN  IF CityRaises(data) THEN Raise("AttributeError") /\ UNCHANGED memo
           ELSE IF list_data = <<>>
           THEN Return(<<>>, CityName(data)) /\ UNCHANGED memo
           ELSE IF LoopException(list_data) # "none"
           THEN Raise(LoopException(list_data)) /\ UNCHANGED memo
           ELSE \E frame \in {dropna(ParseTimes(LoopRows(list_data)))} :
                \E sorted \in SortOutcomes(frame) :
                    /\ memo' = [frame |-> frame, sorted |-> sorted]
                    \* df['time'].iloc[0] of the print: IndexError on no rows
                    /\ IF sorted = <<>> THEN Raise("IndexError")
                       ELSE Return(Labelled(sorted), CityName(data))

Next == extract_data

Spec == Init /\ [][Next]_vars

(***************************************************************************)
(* compute_summary (extract.py 146-161).  mean(), max() and min() give     *)
(* numpy floats, whose round(x, n) scales by 10^n, rounds half to even     *)
(* and scales back; the mean is held as the exact ratio sum / count.       *)
(***************************************************************************)
\* df[name], as the sequence of its values
RECURSIVE Column(_, _)
Column(frame, name) ==
    IF frame = <<>> THEN <<>>
    ELSE <<Head(frame)[name]>> \o Column(Tail(frame), name)

RECURSIVE Sum(_)
Sum(col) == IF col = <<>> THEN 0 ELSE Head(col) + Sum(Tail(col))

\* .max() and .min() of a column with at least one value
RECURSIVE Max(_)
Max(col) ==
    IF Len(col) = 1 THEN Head(col)
    ELSE LET m == Max(Tail(col)) IN IF Head(col) > m THEN Head(col) ELSE m

RECURSIVE Min(_)
Min(col) ==
    IF Len(col) = 1 THEN Head(col)
    ELSE LET m == Min(Tail(col)) IN IF Head(col) < m THEN Head(col) ELSE m

\* round(num / den, ndigits) for den > 0: the multiple of unit nearest to
\* the ratio, the even one when it is half way
RoundRatio(num, den, unit) ==
    LET q == num \div (den * unit)
        r == num % (den * unit)
    IN  IF 2 * r < den * unit THEN q * unit
        ELSE IF 2 * r > den * unit THEN (q + 1) * unit
        ELSE IF q % 2 = 0 THEN q * unit
        ELSE (q + 1) * unit

\* round(df[name].mean(), 1)
Mean1(frame, name) == RoundRatio(Sum(Column(frame, name)), Len(frame), Fx \div 10)

\* df["time"].dt.date.nunique()
Dates(frame) == { frame[i].time \div 24 : i \in 1..Len(frame) }

\* mutant: the warmest and coldest slot are taken from temp
Summary_of_temp(frame) ==
    [temp_avg      |-> Mean1(frame, "temp"),
     temp_max      |-> Round1(Max(Column(frame, "temp"))),
     temp_min      |-> Round1(Min(Column(frame, "temp"))),
     humidity_avg  |-> Mean1(frame, "humidity"),
     pressure_avg  |-> Mean1(frame, "pressure"),
     wind_max      |-> Round2(Max(Column(frame, "wind_speed"))),
     pop_max       |-> Round1(Max(Column(frame, "pop"))),
     dew_point_avg |-> Mean1(frame, "dew_point"),
     total_slots   |-> Len(frame),
     days_covered  |-> Cardinality(Dates(frame))]

\* the dict of compute_summary for a frame with rows
Summary(frame) ==
    [temp_avg      |-> Mean1(frame, "temp"),
     temp_max      |-> Round1(Max(Column(frame, "temp_max"))),
     temp_min      |-> Round1(Min(Column(frame, "temp_min"))),
     humidity_avg  |-> Mean1(frame, "humidity"),
     pressure_avg  |-> Mean1(frame, "pressure"),
     wind_max      |-> Round2(Max(Column(frame, "wind_speed"))),
     pop_max       |-> Round1(Max(Column(frame, "pop"))),
     dew_point_avg |-> Mean1(frame, "dew_point"),
     total_slots   |-> Len(frame),
     days_covered  |-> Cardinality(Dates(frame))]

\* mutant: the empty frame is summarised like any other, its counts zero
\* and its statistics missing (NaN, held as NaT)
Digest_of_any_frame(frame) ==
    IF frame # <<>> THEN Summary(frame)
    ELSE [temp_avg |-> NaT, temp_max |-> NaT, temp_min |-> NaT,
          humidity_avg |-> NaT, pressure_avg |-> NaT, wind_max |-> NaT,
          pop_max |-> NaT, dew_point_avg |-> NaT,
          total_slots |-> 0, days_covered |-> 0]

\* if df.empty: return {}
Digest(frame) == IF frame = <<>> THEN EmptyDigest ELSE Summary(frame)

\* summary = compute_summary(df), on whatever extract_data returned
compute_summary ==
    /\ pc = "returned"
    /\ summary' = Digest(df)
    /\ pc' = "summarised"
    /\ UNCHANGED <<data, df, city, exc, given, first, memo, process>>

(***************************************************************************)
(* A caller that normalises and summarises a list of slots and then does   *)
(* so once more, with the same slots in the same or in another order.      *)
(* What the first call left (df, city, summary, the dict) stays where it   *)
(* is while the second runs.                                               *)
(***************************************************************************)
MaxSeries == 3

SeriesMain(temp, temp_min, temp_max, humidity) ==
    MainDict(Num(temp), Absent, temp_min, temp_max, Num(humidity), Num(1013 * Fx))

SeriesSlot(dt, main, speed, pop) ==
    Slot(main, WindDict(Num(speed), Num(180 * Fx)), BaseClouds, BaseWeather,
         Num(pop), Num(10000 * Fx), Text(dt))

\* a forecast of five slots, not in the order of their times: three slots
\* of one day, a slot of the next day, and a second slot for the first
\* timestamp
SeriesPool ==
    << SeriesSlot("2024-01-01 03:00:00",
                  SeriesMain(15 * Fx, Num(12 * Fx), Num(31 * Fx), 50 * Fx), 75000, 9000),
       SeriesSlot("2024-01-01 00:00:00",
                  SeriesMain(8 * Fx, Num(6 * Fx), Num(9 * Fx), 70 * Fx), 2 * Fx, 5000),
       SeriesSlot("2024-01-02 00:00:00",
                  SeriesMain(10 * Fx, Absent, Absent, 50 * Fx), 12 * Fx, 35 * Fx),
       SeriesSlot("2024-01-01 00:00:00",
                  SeriesMain(5 * Fx, Num(3 * Fx), Num(7 * Fx), 90 * Fx), 3 * Fx, 2000),
       SeriesSlot("2024-01-01 06:00:00",
                  SeriesMain(25 * Fx, Num(-2 * Fx), Num(26 * Fx), 30 * Fx), Fx, 0) >>

\* the lists of up to n slots of a forecast, in the order of the forecast
RECURSIVE SubListsUpTo(_, _)
SubListsUpTo(pool, n) ==
    IF n = 0 \/ pool = <<>> THEN {<<>>}
    ELSE SubListsUpTo(Tail(pool), n)
         \cup { <<Head(pool)>> \o q : q \in SubListsUpTo(Tail(pool), n - 1) }

SeriesInputs ==
    { Data(ListOf(q), CityDict(Text("Chennai"))) :
        q \in SubListsUpTo(SeriesPool, MaxSeries) }
    \cup { Data(l, CityDict(Text("Chennai"))) :
             l \in { NoList("absent"),
                     ListOf(<<[BaseSlot(BaseMain(Num(12 * Fx))) EXCEPT !.dt_txt = TNull]>>),
                     ListOf(<<BaseSlot(NoMain("null"))>>) } }

SeriesInit == \E d \in SeriesInputs : Fresh(d)

\* the same slots handed in again, in the order p
Reordered(d, p) == [d EXCEPT !.list.items = Permuted(@, p, 1)]

\* extract_data(data) once more, after the first call and its summary
call_again ==
    /\ pc \in {"summarised", "raised"}
    /\ first.pc = "none"
    /\ first' = [pc |-> pc, data |-> data, df |-> df, city |-> city,
                 exc |-> exc, summary |-> summary]
    /\ \E p \in Permutations(1..Len(ListData(data))) :
           /\ data' = Reordered(data, p)
           /\ given' = Reordered(data, p)
    /\ pc' = "call"
    /\ UNCHANGED <<df, city, exc, summary, memo, process>>

SeriesNext == extract_data \/ compute_summary \/ call_again

SeriesSpec == SeriesInit /\ [][SeriesNext]_vars

(***************************************************************************)
(* The working directory (api.py 21-76, main.py 264-267).  A file has a    *)
(* name, split into what precedes the city, the city and the extension;    *)
(* pd.read_csv either raises on it (readable = FALSE) or yields its rows,  *)
(* none for a file of a header line only.  A row holds the cells of one    *)
(* series row as read_csv gives them back: a number is the float that was  *)
(* written (repr round-trips), the time is the text of the Timestamp, a    *)
(* text column that is None or "" is written as an empty field and read    *)
(* back as NaN.                                                            *)
(***************************************************************************)
TNaN == [kind |-> "nan", s |-> ""]

\* str(Timestamp), the inverse of to_datetime on the hours of the model
FormatTime(t) ==
    CASE t = 0  -> Text("2024-01-01 00:00:00")
      [] t = 3  -> Text("2024-01-01 03:00:00")
      [] t = 6  -> Text("2024-01-01 06:00:00")
      [] t = 24 -> Text("2024-01-02 00:00:00")
      [] OTHER  -> Text("NaT")

TextCell(v) == IF v.kind = "str" /\ v.s # "" THEN v ELSE TNaN

CsvRow(r) ==
    [r EXCEPT !.time = FormatTime(@),
              !.description = TextCell(@), !.icon = TextCell(@)]

\* df.to_csv(csv_path, index=False), read back by pd.read_csv
RECURSIVE to_csv(_)
to_csv(frame) ==
    IF frame = <<>> THEN <<>>
    ELSE <<CsvRow(Head(frame))>> \o to_csv(Tail(frame))

FileName(stem, c, ext) == [stem |-> stem, city |-> c, ext |-> ext]
File(name, readable, rows) == [name |-> name, readable |-> readable, rows |-> rows]

\* f"weather_data_{city}.csv"
CsvPath(c) == FileName("weather_data_", c, ".csv")

\* str.lower on the names of the model
Lower(s) ==
    CASE s = "Chennai" -> "chennai"
      [] s = "Mumbai" -> "mumbai"
      [] s = "Unknown City" -> "unknown city"
      [] OTHER -> s

\* the test of api.py 25-29; main strips the city it passes on, and among
\* the names of the model the city is contained in a file name exactly
\* when it is the name's city part, case apart
Matches(c, fname) ==
    /\ Lower(fname.stem) = "weather_data_"
    /\ Lower(fname.ext) = ".csv"
    /\ Lower(c) = Lower(fname.city)

\* pop = float(row.get("pop", 0)); if pop > 1: pop /= 100.0
CsvPop(cell) == IF cell > Fx THEN cell \div 100 ELSE cell

\* the dict built from one row of the CSV (api.py 45-70)
ApiItem(row) ==
    Slot(MainDict(Num(row.temp), Num(row.feels_like), Num(row.temp_min),
                  Num(row.temp_max), Num(row.humidity), Num(row.pressure)),
         WindDict(Num(row.wind_speed), Num(row.wind_deg)),
         CloudsDict(Num(row.clouds)),
         WeatherList(row.description, row.icon),
         Num(CsvPop(row.pop)),
         Num(row.visibility),
         row.time)

RECURSIVE ApiList(_)
ApiList(rows) ==
    IF rows = <<>> THEN <<>>
    ELSE <<ApiItem(Head(rows))>> \o ApiList(Tail(rows))

\* a file the loop of api.py 24-74 returns from: its name matches, it
\* reads, and it has a row
Usable(c, f) == Matches(c, f.name) /\ f.readable /\ f.rows # <<>>

\* what fetch_all hands to main: None, the live response, or the dict
\* built from a CSV (rows: the rows read)
Live(body) == [kind |-> "live", value |-> body, rows |-> <<>>]
FromCsv(c, rows) ==
    [kind |-> "csv", value |-> Data(ListOf(ApiList(rows)), CityDict(Text(c))),
     rows |-> rows]

\* _load_local_csv_as_api(city): os.listdir gives the files in any order,
\* the first usable one is returned; None when there is none
_load_local_csv_as_api(c, fs) ==
    IF \E f \in fs : Usable(c, f)
    THEN { FromCsv(c, f.rows) : f \in { g \in fs : Usable(c, g) } }
    ELSE { NoForecast }

(***************************************************************************)
(* fetch_forecast (api.py 100-139).  env.live is how requests.get,         *)
(* raise_for_status and resp.json() end: "ok" with env.body, or with one   *)
(* of the exceptions of requests.  Each outcome says what is returned,     *)
(* whether the CSV loader ran, and the exception that left the function.   *)
(***************************************************************************)
Outcome(result, consulted, raised) ==
    [forecast |-> result, consulted |-> consulted, raised |-> raised]

Fallback(c, fs) ==
    { Outcome(r, TRUE, "none") : r \in _load_local_csv_as_api(c, fs) }

\* mutant: only the network errors lead to the CSV
Caught_network_only(outcome) == outcome \in {"Timeout", "ConnectionError"}

\* except (Timeout, ConnectionError) / except RequestException
Caught(outcome) == outcome \in {"Timeout", "ConnectionError", "HTTPError"}

fetch_forecast(e, fs) ==
    IF ~e.key THEN Fallback(e.city_input, fs)
    ELSE IF e.live = "ok"
    THEN IF e.body.list.kind = "null"
         THEN { Outcome(NoForecast, FALSE, "TypeError") }   \* len(None), line 126
         ELSE { Outcome(Live(e.body), FALSE, "none") }
    ELSE IF Caught(e.live) THEN Fallback(e.city_input, fs)
    ELSE { Outcome(NoForecast, FALSE, e.live) }

(***************************************************************************)
(* main (main.py 217-296), one action per step.  calls lists the           *)
(* functions invoked so far in this run; status is "1" or "0" once main    *)
(* has left through sys.exit(1) or returned, "running" before that and     *)
(* when an exception ended the run with a traceback.                       *)
(***************************************************************************)
MaxRuns == 2

\* the city typed in, as main strips it
TypedCity == "Chennai"

MainSlot(dt, pop, visibility, weather) ==
    Slot(BaseMain(Num(12 * Fx)), BaseWind, BaseClouds, weather, pop, visibility, dt)

\* the responses of the provider: two slots; one slot at 0.5 % of
\* precipitation; one slot with pop 0, visibility 0 and no weather entry;
\* one slot under no city name; no slot; "list": null; a slot whose
\* timestamp does not parse
LiveBodies ==
    { Data(ListOf(<<MainSlot(Text("2024-01-01 03:00:00"), Num((9 * Fx) \div 10),
                             Num(8000 * Fx), BaseWeather),
                    MainSlot(Text("2024-01-01 00:00:00"), Num(Fx \div 5),
                             Num(10000 * Fx), BaseWeather)>>),
           CityDict(Text("Chennai"))),
      Data(ListOf(<<MainSlot(BaseDt, Num(Fx \div 200), Num(10000 * Fx), BaseWeather)>>),
           CityDict(Text("Chennai"))),
      Data(ListOf(<<MainSlot(BaseDt, Num(0), Num(0), NoWeather("absent"))>>),
           CityDict(Text("Chennai"))),
      Data(ListOf(<<MainSlot(BaseDt, Num(Fx \div 5), Num(10000 * Fx), BaseWeather)>>),
           CityDict(TAbsent)),
      Data(ListOf(<<>>), CityDict(Text("Chennai"))),
      Data(NoList("null"), CityDict(Text("Chennai"))),
      Data(ListOf(<<MainSlot(Text("not a date"), Num(Fx \div 5), Num(10000 * Fx),
                             BaseWeather)>>),
           CityDict(Text("Chennai"))) }

Env(key, live, body) ==
    [key |-> key, live |-> live, body |-> body, city_input |-> TypedCity]

\* without a key nothing is requested; a failed request has no body
Envs ==
    { Env(FALSE, "ok", NoRun.data) }
    \cup { Env(TRUE, "ok", b) : b \in LiveBodies }
    \cup { Env(TRUE, x, NoRun.data) : x \in {"Timeout", "ConnectionError", "HTTPError"} }

\* the rows an earlier run left behind for one slot at 35 %
StoredRows ==
    to_csv(Labelled(ParseTimes(<<SlotRow(MainSlot(BaseDt, Num((35 * Fx) \div 100),
                                                  Num(10000 * Fx), BaseWeather))>>)))

\* the working directory at the start: empty; a matching file that does
\* not read; one of a header only; one of another city; a usable one; an
\* unusable and two usable ones
Directories ==
    { {},
      { File(CsvPath("Chennai"), FALSE, <<>>) },
      { File(CsvPath("Chennai"), TRUE, <<>>) },
      { File(CsvPath("Mumbai"), TRUE, StoredRows) },
      { File(CsvPath("Chennai"), TRUE, StoredRows) },
      { File(CsvPath("chennai"), TRUE, <<>>),
        File(CsvPath("Chennai"), TRUE, StoredRows),
        File(FileName("Weather_Data_", "chennai", ".CSV"), TRUE,
             StoredRows \o StoredRows) } }

MainInit ==
    /\ pc = "main"
    /\ runs = 1
    /\ env \in Envs
    /\ files \in Directories
    /\ forecast = NoForecast
    /\ calls = <<>>
    /\ status = "running"
    /\ data = NoRun.data
    /\ given = NoRun.data
    /\ df = <<>>
    /\ city = ""
    /\ exc = "none"
    /\ summary = EmptyDigest
    /\ first = NoRun
    /\ memo = NoMemo

\* sys.exit(code)
SysExit(code) ==
    /\ pc' = "exited"
    /\ status' = code

\* fetch_all(city_input), line 250: the forecast, then the current
\* weather when there is a key
fetch_all ==
    /\ pc = "main"
    /\ \E r \in fetch_forecast(env, files) :
           /\ forecast' = r.forecast
           /\ calls' = calls \o <<"fetch_all", "fetch_forecast">>
                  \o (IF r.consulted THEN <<"_load_local_csv_as_api">> ELSE <<>>)
                  \o (IF r.raised = "none" /\ env.key
                      THEN <<"fetch_current_weather">> ELSE <<>>)
           /\ IF r.raised = "none"
              THEN pc' = "fetched" /\ UNCHANGED <<exc, df, city>>
              ELSE Raise(r.raised)
    /\ UNCHANGED <<data, given, summary, first, memo, env, files, status, runs>>

\* lines 252-257: no forecast, exit; else extract_data(forecast_data)
main_forecast ==
    /\ pc = "fetched"
    /\ IF forecast.kind = "None"
       THEN SysExit("1") /\ UNCHANGED <<data, given, calls>>
       ELSE /\ data' = forecast.value
            /\ given' = forecast.value
            /\ calls' = Append(calls, "extract_data")
            /\ pc' = "call"
            /\ UNCHANGED status
    /\ UNCHANGED <<df, city, exc, summary, first, memo, env, files, forecast, runs>>

\* mutant: main goes on with an empty series
SeriesEmpty_never(frame) == FALSE

\* df.empty
SeriesEmpty(frame) == frame = <<>>

\* lines 258-262: an empty series, exit; else compute_summary(df)
main_series ==
    /\ pc = "returned"
    /\ IF SeriesEmpty(df)
       THEN SysExit("1") /\ UNCHANGED <<summary, calls>>
       ELSE /\ summary' = Digest(df)
            /\ calls' = Append(calls, "compute_summary")
            /\ pc' = "summarised"
            /\ UNCHANGED status
    /\ UNCHANGED <<data, given, df, city, exc, first, memo, env, files, forecast, runs>>

\* lines 265-266: the file of this name is replaced
main_export ==
    /\ pc = "summarised"
    /\ files' = { f \in files : f.name # CsvPath(city) }
                \cup { File(CsvPath(city), TRUE, to_csv(df)) }
    /\ calls' = Append(calls, "to_csv")
    /\ pc' = "saved"
    /\ UNCHANGED <<data, given, df, city, exc, summary, first, memo,
                   env, forecast, status, runs>>

\* groupby("day_label").agg(description=("description", "first")): the
\* first description of the day that is not null
HasText(frame, day) ==
    \E i \in 1..Len(frame) :
        frame[i].day_label = day /\ frame[i].description.kind = "str"

\* row["description"].capitalize() (lines 190, 144) needs a string
DailyRaises(frame) == \E i \in 1..Len(frame) : ~HasText(frame, frame[i].day_label)
TableRaises(frame) == \E i \in 1..Len(frame) : frame[i].description.kind # "str"

\* lines 270-273: the four print functions, up to the first that raises
main_report ==
    /\ pc = "saved"
    /\ IF DailyRaises(df)
       THEN /\ calls' = calls \o <<"print_summary", "print_daily_summary">>
            /\ pc' = "raised" /\ exc' = "AttributeError"
       ELSE IF TableRaises(df)
       THEN /\ calls' = calls \o <<"print_summary", "print_daily_summary",
                                   "print_forecast_table">>
            /\ pc' = "raised" /\ exc' = "AttributeError"
       ELSE /\ calls' = calls \o <<"print_summary", "print_daily_summary",
                                   "print_forecast_table", "print_alerts">>
            /\ pc' = "reported" /\ UNCHANGED exc
    /\ UNCHANGED <<data, given, df, city, summary, first, memo,
                   env, files, forecast, status, runs>>

\* lines 276-293: dashboard_plot(df, city, summary, save_path), then main
\* returns
main_dashboard ==
    /\ pc = "reported"
    /\ calls' = Append(calls, "dashboard_plot")
    /\ pc' = "done"
    /\ status' = "0"
    /\ UNCHANGED <<data, given, df, city, exc, summary, first, memo,
                   env, files, forecast, runs>>

\* the program is started again in the directory the last run left
main ==
    /\ pc \in {"done", "exited", "raised"}
    /\ runs < MaxRuns
    /\ runs' = runs + 1
    /\ first' = [pc |-> pc, data |-> data, df |-> df, city |-> city,
                 exc |-> exc, summary |-> summary]
    /\ env' \in Envs
    /\ pc' = "main"
    /\ forecast' = NoForecast
    /\ calls' = <<>>
    /\ status' = "running"
    /\ data' = NoRun.data
    /\ given' = NoRun.data
    /\ df' = <<>>
    /\ city' = ""
    /\ exc' = "none"
    /\ summary' = EmptyDigest
    /\ UNCHANGED <<files, memo>>

MainNext ==
    \/ fetch_all
    \/ main_forecast
    \/ extract_data
    \/ main_series
    \/ main_export
    \/ main_report
    \/ main_dashboard
    \/ main

MainSpec == MainInit /\ [][MainNext]_vars

(***************************************************************************)
(* What the claims speak about.                                            *)
(***************************************************************************)
\* the slots handed in, and the timestamp each one's dt_txt parses to
InputSlots == ListData(data)
SlotTime(s) == to_datetime(s.dt_txt)
Parseable(s) == SlotTime(s) # NaT
ParseableIndexes == { i \in 1..Len(InputSlots) : Parseable(InputSlots[i]) }

IsNumber(v) == v.kind \in {"num", "numstr"}

\* what _safe makes of the raw temperature, humidity and wind speed of
\* a slot, and the wind speed in km/h
NoNumber(v) == ~IsNumber(v)
RawTemp(s) == IF IsNumber(s.main.temp) THEN s.main.temp.n ELSE 0
RawHumidity(s) == IF IsNumber(s.main.humidity) THEN s.main.humidity.n ELSE 0
RawWind(s) == IF IsNumber(s.wind.speed) THEN s.wind.speed.n ELSE 0
RawKmh(s) == (RawWind(s) * 36) \div 10

\* every slot with a timestamp has a row of its timestamp for which P
\* holds, and every row has such a slot
EachSlotAndRow(P(_, _)) ==
    pc = "returned" =>
        /\ \A i \in ParseableIndexes :
               \E j \in 1..Len(df) :
                   df[j].time = SlotTime(InputSlots[i]) /\ P(InputSlots[i], df[j])
        /\ \A j \in 1..Len(df) :
               \E i \in ParseableIndexes :
                   df[j].time = SlotTime(InputSlots[i]) /\ P(InputSlots[i], df[j])

(***************************************************************************)
(* C1.  Whatever the order of the slots and whichever of their timestamps  *)
(* parse, the rows of the series extract_data returns ascend in time:      *)
(* time[i] <= time[i+1] for all adjacent rows.                             *)
(***************************************************************************)
C1_SeriesAscending ==
    pc = "returned" =>
        \A i \in 1..Len(df), j \in 1..Len(df) : i < j => df[i].time <= df[j].time

\* a series of two or more rows, returned for slots that came out of
\* order and with a timestamp that does not parse among them
C1_Witness ==
    /\ pc = "returned"
    /\ Len(df) >= 2
    /\ \E i \in 1..Len(InputSlots) : ~Parseable(InputSlots[i])
    /\ \E i \in ParseableIndexes, j \in ParseableIndexes :
           i < j /\ SlotTime(InputSlots[i]) > SlotTime(InputSlots[j])

(***************************************************************************)
(* C2.  With a well-formed city, a call whose list is empty, or whose      *)
(* slots all carry a timestamp that does not parse, returns the empty      *)
(* series together with the city name and raises nothing.                  *)
(***************************************************************************)
C2_EmptyInputReturnsEmptySeries ==
    (pc # "call" /\ ~CityRaises(data) /\ ParseableIndexes = {}
       /\ \A i \in 1..Len(InputSlots) : SlotException(InputSlots[i]) = "none")
    => (pc = "returned" /\ exc = "none" /\ df = <<>> /\ city = CityName(data))

(***************************************************************************)
(* C3.  No exception leaves the extraction of the fields of a slot or the  *)
(* computation of its derived quantities, whatever is absent, null or of   *)
(* another type in the slot and whatever its temperature, humidity and     *)
(* wind are: with a well-formed city, the call is left by no exception     *)
(* of the loop.                                                            *)
(***************************************************************************)
C3_NoExceptionFromTheLoop ==
    ~CityRaises(data) => ~(pc = "raised" /\ exc # "IndexError")

(***************************************************************************)
(* C4.  A numeric field whose raw value is missing, null or not a number   *)
(* is stored as its documented fallback, the same in the three cases:      *)
(* pressure 1013 hPa, humidity 0, cloud cover 0, visibility 10000 m        *)
(* (10.0 km).                                                              *)
(***************************************************************************)
C4_FallbackOf(s, r) ==
    /\ NoNumber(s.main.pressure) => r.pressure = 1013 * Fx
    /\ NoNumber(s.main.humidity) => r.humidity = 0
    /\ NoNumber(s.clouds.all) => r.clouds = 0
    /\ NoNumber(s.visibility) => r.visibility = 10 * Fx

C4_DocumentedFallbacks == EachSlotAndRow(C4_FallbackOf)

(***************************************************************************)
(* C5.  A slot whose main group has no feels_like, temp_min or temp_max    *)
(* stores, in that field, the stored primary temperature, whatever the     *)
(* primary temperature is (absent included).                               *)
(***************************************************************************)
C5_TemperatureOf(s, r) ==
    /\ r.temp = Round1(RawTemp(s))
    /\ s.main.feels_like.kind = "absent" => r.feels_like = r.temp
    /\ s.main.temp_min.kind = "absent" => r.temp_min = r.temp
    /\ s.main.temp_max.kind = "absent" => r.temp_max = r.temp

C6_OneRowPerParseableSlot ==
    pc = "returned" =>
        /\ Len(df) = Cardinality(ParseableIndexes)
        /\ \A j \in 1..Len(df) : df[j].time # NaT
        /\ \A i \in ParseableIndexes :
               LET t == SlotTime(InputSlots[i])
                   c == Round1(RawTemp(InputSlots[i]))
               IN  Cardinality({ k \in ParseableIndexes :
                                   /\ SlotTime(InputSlots[k]) = t
                                   /\ Round1(RawTemp(InputSlots[k])) = c })
                   = Cardinality({ j \in 1..Len(df) :
                                     df[j].time = t /\ df[j].temp = c })

\* a series returned for slots of which one does not parse and two share
\* a timestamp; both of those are rows
C6_Witness ==
    /\ pc = "returned"
    /\ Len(df) < Len(InputSlots)
    /\ \E i \in 1..Len(df), j \in 1..Len(df) :
           i < j /\ df[i].time = df[j].time /\ df[i].temp # df[j].temp

(***************************************************************************)
(* C7.  The stored pop of a raw probability p is p * 100 when p <= 1       *)
(* (1.0 itself is stored as 100) and p itself when p > 1, rounded to one   *)
(* decimal: raw 0.45 and raw 45 are both stored as 45.0.                   *)
(***************************************************************************)
C7_PopOf(s, r) ==
    /\ (IsNumber(s.pop) /\ s.pop.n <= Fx) => r.pop = Round1(s.pop.n * 100)
    /\ (IsNumber(s.pop) /\ s.pop.n > Fx) => r.pop = Round1(s.pop.n)
    /\ (IsNumber(s.pop) /\ s.pop.n = Fx) => r.pop = 100 * Fx
    /\ (IsNumber(s.pop) /\ s.pop.n \in {4500, 45 * Fx}) => r.pop = 45 * Fx

C7_PopScaling == EachSlotAndRow(C7_PopOf)

\* the row of a slot whose raw pop is exactly 1.0, stored as 100
C7_Witness ==
    /\ pc = "returned"
    /\ Len(InputSlots) = 1 /\ Len(df) = 1
    /\ InputSlots[1].pop = Num(Fx)
    /\ df[1].pop = 100 * Fx

(***************************************************************************)
(* C8.  The stored heat index is the Rothfusz regression of the            *)
(* unrounded temperature and humidity exactly when temperature >= 27 and   *)
(* humidity >= 40; in every other case it is the stored temperature (so    *)
(* at 26.9 C and 90 %).                                                    *)
(***************************************************************************)
C8_HeatIndexOf(s, r) ==
    /\ r.temp = Round1(RawTemp(s))
    /\ IF RawTemp(s) >= 27 * Fx /\ RawHumidity(s) >= 40 * Fx
       THEN r.heat_index = Round1(_heat_index(RawTemp(s), RawHumidity(s)))
       ELSE r.heat_index = r.temp
    /\ (RawTemp(s) = 269000 /\ RawHumidity(s) = 90 * Fx) => r.heat_index = 269000

C8_HeatIndexGate == EachSlotAndRow(C8_HeatIndexOf)

\* a row whose temperature is stored as 27.0 and whose humidity is 90 %,
\* yet whose heat index is the temperature: the unrounded 26.96 is below
\* the gate
C8_Witness ==
    /\ pc = "returned"
    /\ Len(InputSlots) = 1 /\ Len(df) = 1
    /\ RawTemp(InputSlots[1]) = 269600
    /\ RawHumidity(InputSlots[1]) = 90 * Fx
    /\ df[1].temp = 27 * Fx
    /\ df[1].heat_index = 27 * Fx

(***************************************************************************)
(* C9.  At temperature 27.0 C and humidity 40 % the Rothfusz regression    *)
(* applies.  As claimed: the heat index it gives is at least the           *)
(* temperature, 27.0.                                                      *)
(***************************************************************************)
AtHeatBoundary(s) == RawTemp(s) = 27 * Fx /\ RawHumidity(s) = 40 * Fx

C9_AtLeastTemperature(s, r) ==
    AtHeatBoundary(s) =>
        /\ r.heat_index = Round1(_heat_index(RawTemp(s), RawHumidity(s)))
        /\ r.heat_index >= r.temp

C9_HeatIndexAtBoundaryNotBelow == EachSlotAndRow(C9_AtLeastTemperature)

(***************************************************************************)
(* C9, amended.  At temperature 27.0 C and humidity 40 % the Rothfusz      *)
(* regression applies and gives 26.9 C (26.86 before rounding), which is   *)
(* below the temperature.                                                  *)
(***************************************************************************)
C9_BelowTemperature(s, r) ==
    AtHeatBoundary(s) =>
        /\ r.heat_index = Round1(_heat_index(RawTemp(s), RawHumidity(s)))
        /\ r.heat_index = 269000
        /\ r.temp = 27 * Fx

C9_HeatIndexAtBoundary == EachSlotAndRow(C9_BelowTemperature)

\* the row of a slot at 27.0 C and 40 %
C9_Witness ==
    /\ pc = "returned"
    /\ Len(InputSlots) = 1 /\ Len(df) = 1
    /\ AtHeatBoundary(InputSlots[1])
    /\ df[1].heat_index # df[1].temp

(***************************************************************************)
(* C10.  The stored wind chill is the JAG/TI formula of the unrounded      *)
(* temperature and of the wind speed in km/h (m/s * 3.6) exactly when      *)
(* temperature <= 10 and that speed >= 4.8; above 10 C (so at 10.1 C) it   *)
(* is the stored temperature whatever the wind; at 10.0 C and 20 km/h the  *)
(* formula applies.                                                        *)
(***************************************************************************)
C10_WindChillOf(s, r) ==
    /\ r.temp = Round1(RawTemp(s))
    /\ IF RawTemp(s) <= 10 * Fx /\ RawKmh(s) >= 48000
       THEN r.wind_chill = Round1(_wind_chill(RawTemp(s), RawKmh(s)))
       ELSE r.wind_chill = r.temp
    /\ RawTemp(s) > 10 * Fx => r.wind_chill = r.temp
    /\ (RawTemp(s) = 10 * Fx /\ RawWind(s) = 55600) =>
           r.wind_kmh = 20 * Fx /\ r.wind_chill = 74000

C10_WindChillGate == EachSlotAndRow(C10_WindChillOf)

\* the row of a slot at 10.0 C in a wind of 20 km/h, its wind chill below
\* its temperature
C10_Witness ==
    /\ pc = "returned"
    /\ Len(InputSlots) = 1 /\ Len(df) = 1
    /\ RawTemp(InputSlots[1]) = 10 * Fx
    /\ df[1].wind_kmh = 20 * Fx
    /\ df[1].wind_chill < df[1].temp

(***************************************************************************)
(* C11.  The dew point is computed for every row with the humidity         *)
(* floored at 1: a humidity below 1 (zero, none, negative) stores the dew  *)
(* point of humidity 1 at the same temperature, and math.log is never      *)
(* handed zero or a negative number (it would raise ValueError).           *)
(***************************************************************************)
C11_DewPointOf(s, r) ==
    /\ RawHumidity(s) < Fx => r.dew_point = Round1(_dew_point(RawTemp(s), Fx))
    /\ RawHumidity(s) >= Fx =>
           r.dew_point = Round1(_dew_point(RawTemp(s), RawHumidity(s)))
    /\ (RawHumidity(s) < Fx /\ RawTemp(s) = 12 * Fx) => r.dew_point = -426000

C11_DewPointHumidityFloor ==
    /\ exc # "ValueError"
    /\ EachSlotAndRow(C11_DewPointOf)

\* the row of a slot at 12 C whose humidity is negative: the dew point of
\* humidity 1
C11_Witness ==
    /\ pc = "returned"
    /\ Len(InputSlots) = 1 /\ Len(df) = 1
    /\ InputSlots[1].main.humidity = Num(-5 * Fx)
    /\ RawTemp(InputSlots[1]) = 12 * Fx
    /\ df[1].dew_point = -426000

(***************************************************************************)
(* C12.  For a series with rows, the digest of compute_summary holds: in   *)
(* temp_avg the mean of temp (to one decimal), in temp_max the largest     *)
(* temp_max of a row (not the largest temp), in temp_min the smallest      *)
(* temp_min, in wind_max the largest wind_speed, in pop_max the largest    *)
(* pop, in total_slots the number of rows and in days_covered the number   *)
(* of calendar dates of the rows.  Three slots of 2024-01-01, at 00:00,    *)
(* 03:00 and 06:00 with 5, 15 and 25 C, give temp_avg = 15.0,              *)
(* days_covered = 1, total_slots = 3.                                      *)
(***************************************************************************)
Summarised == pc = "summarised" /\ df # <<>>

\* v is the largest (sign = 1) or smallest (sign = -1) value of a column
Extreme(v, name, sign) ==
    /\ \E i \in 1..Len(df) : df[i][name] = v
    /\ \A i \in 1..Len(df) : sign * df[i][name] <= sign * v

ExampleOfThree ==
    /\ Len(df) = 3
    /\ df[1].time = 0 /\ df[2].time = 3 /\ df[3].time = 6
    /\ df[1].temp = 5 * Fx /\ df[2].temp = 15 * Fx /\ df[3].temp = 25 * Fx

C12_SummaryFields ==
    Summarised =>
        /\ summary.temp_avg % (Fx \div 10) = 0
        /\ 2 * Abs(Len(df) * summary.temp_avg - Sum(Column(df, "temp")))
               <= Len(df) * (Fx \div 10)
        /\ Extreme(summary.temp_max, "temp_max", 1)
        /\ Extreme(summary.temp_min, "temp_min", -1)
        /\ Extreme(summary.wind_max, "wind_speed", 1)
        /\ Extreme(summary.pop_max, "pop", 1)
        /\ summary.total_slots = Len(df)
        /\ summary.days_covered
               = Cardinality({ df[i].day_label : i \in 1..Len(df) })
        /\ ExampleOfThree =>
               /\ summary.temp_avg = 15 * Fx
               /\ summary.days_covered = 1
               /\ summary.total_slots = 3

\* the digest of the three slots of the example, whose largest temp_max
\* (31) is not its largest temp (25), and the digest of a series over
\* two days
C12_Witness ==
    /\ Summarised
    /\ ExampleOfThree
    /\ summary.temp_avg = 15 * Fx
    /\ summary.temp_max = 31 * Fx
    /\ summary.temp_min = -2 * Fx

(***************************************************************************)
(* C13.  compute_summary returns the empty digest for the empty series,    *)
(* raising nothing, and a digest of all ten keys for every series with     *)
(* rows: the digest is empty exactly when the series is.                   *)
(***************************************************************************)
DigestKeys ==
    { "temp_avg", "temp_max", "temp_min", "humidity_avg", "pressure_avg",
      "wind_max", "pop_max", "dew_point_avg", "total_slots", "days_covered" }

C13_EmptyDigestIffEmptySeries ==
    /\ pc = "summarised" =>
           /\ exc = "none"
           /\ df = <<>> => DOMAIN summary = {}
           /\ df # <<>> => DOMAIN summary = DigestKeys
    \* a call on what extract_data returned always comes back
    /\ pc = "returned" => ENABLED compute_summary

\* the empty digest, returned for the empty series
C13_Witness ==
    /\ pc = "summarised"
    /\ df = <<>>
    /\ summary = EmptyDigest

(***************************************************************************)
(* C14.  extract_data is a pure function: a second call on the same dict   *)
(* returns the same rows (every field equal) and the same city, or is      *)
(* left by the same exception, whatever the first call left behind; and    *)
(* no call changes the dict it was given.                                  *)
(***************************************************************************)
SecondCallDone == first.pc # "none" /\ pc \in {"returned", "raised", "summarised"}

Called(f) == \E i \in 1..Len(calls) : calls[i] = f

\* what main does with a series, in the order of lines 262-286
PostProcessing ==
    <<"compute_summary", "to_csv", "print_summary", "print_daily_summary",
      "print_forecast_table", "print_alerts", "dashboard_plot">>

PostCalls ==
    SelectSeq(calls, LAMBDA f : \E i \in 1..Len(PostProcessing) : PostProcessing[i] = f)

IsPrefix(p, q) == Len(p) <= Len(q) /\ SubSeq(q, 1, Len(p)) = p

\* fetch_all returned None; extract_data returned an empty series
NoForecastReturned == pc \in {"fetched", "exited"} /\ forecast.kind = "None"
EmptySeriesReturned ==
    pc \in {"returned", "exited"} /\ Called("extract_data") /\ df = <<>>

C15_MainStopsOrRunsInOrder ==
    /\ NoForecastReturned =>
           /\ PostCalls = <<>>
           /\ pc = "fetched" => ENABLED main_forecast
           /\ ~Called("extract_data")
    /\ EmptySeriesReturned =>
           /\ PostCalls = <<>>
           /\ pc = "returned" => ENABLED main_series
    /\ pc \in {"summarised", "saved", "reported", "done"} =>
           ~NoForecastReturned /\ df # <<>>
    /\ PostCalls # <<>> => forecast.kind # "None" /\ df # <<>>
    /\ pc = "exited" =>
           status = "1" /\ (NoForecastReturned \/ EmptySeriesReturned)
    /\ status = "1" => pc = "exited"
    /\ IsPrefix(PostCalls, PostProcessing)
    /\ pc = "done" => PostCalls = PostProcessing /\ status = "0"

\* a run that exited on an empty series, after one that ran to its end
C15_Witness ==
    /\ pc = "exited"
    /\ status = "1"
    /\ forecast.kind = "live"
    /\ Called("extract_data")
    /\ df = <<>>
    /\ first.pc = "done"

(***************************************************************************)
(* C16  fetch_forecast takes the local CSV exactly when there is no API    *)
(* key or the live request failed.  Then the CSV loader is called, and     *)
(* None is returned exactly when the working directory holds no CSV whose  *)
(* name matches the city, that reads and that has a row; otherwise the     *)
(* dict built from such a file is returned.  When the live request         *)
(* succeeded the loader is not called and what is returned is the live     *)
(* response.  fetch_all requests the current weather only with a key.      *)
(***************************************************************************)
NeedsCsv == ~env.key \/ env.live # "ok"
HasUsableCsv == \E f \in files : Usable(env.city_input, f)

\* fetch_all has returned to main in this run; the directory is still as
\* fetch_forecast saw it
FetchReturned == pc = "fetched" \/ pc = "exited" \/ Called("extract_data")
DirectoryAsFetched == ~Called("to_csv")

C16_CsvFallback ==
    Called("fetch_forecast") =>
        /\ NeedsCsv =>
               /\ Called("_load_local_csv_as_api")
               /\ FetchReturned
               /\ forecast.kind \in {"csv", "None"}
               /\ DirectoryAsFetched =>
                      /\ forecast.kind = "None" <=> ~HasUsableCsv
                      /\ forecast.kind = "csv" =>
                             \E f \in files :
                                 /\ Usable(env.city_input, f)
                                 /\ forecast = FromCsv(env.city_input, f.rows)
        /\ ~NeedsCsv =>
               /\ ~Called("_load_local_csv_as_api")
               /\ FetchReturned => forecast = Live(env.body)
        /\ FetchReturned /\ forecast.kind = "None" => NeedsCsv
        /\ ~env.key => ~Called("fetch_current_weather")

\* a live request that failed with an HTTP error, answered from the CSV
C16_Witness ==
    /\ pc = "fetched"
    /\ env.key
    /\ env.live = "HTTPError"
    /\ forecast.kind = "csv"
    /\ Called("_load_local_csv_as_api")
    /\ Len(ListData(forecast.value)) = 1

(***************************************************************************)
(* C17  The CSV round trip keeps pop and visibility.  When a run of main   *)
(* gets its forecast from the CSV that the run before exported, every row  *)
(* of the series extract_data re-builds has the pop and the visibility     *)
(* (km) of the exported row of the same time, and there are as many rows.  *)
(***************************************************************************)
ReIngested ==
    /\ pc = "returned"
    /\ first.df # <<>>
    /\ forecast.kind = "csv"
    /\ forecast.rows = to_csv(first.df)

C17_RoundTripKeepsPopAndVisibility ==
    ReIngested =>
        /\ Len(df) = Len(first.df)
        /\ \A i \in 1..Len(df) :
               \E j \in 1..Len(first.df) :
                   /\ first.df[j].time = df[i].time
                   /\ first.df[j].pop = df[i].pop
                   /\ first.df[j].visibility = df[i].visibility

(***************************************************************************)
(* C18.  For a list of slots whose timestamps parse and are pairwise       *)
(* distinct, every permutation of the list gives the same series from      *)
(* extract_data (the same rows in the same order) and so the same digest   *)
(* from compute_summary.                                                   *)
(***************************************************************************)
DistinctTimes(slots) ==
    /\ \A i \in 1..Len(slots) : Parseable(slots[i])
    /\ \A i \in 1..Len(slots), j \in 1..Len(slots) :
           i # j => SlotTime(slots[i]) # SlotTime(slots[j])

C18_OrderIndependent ==
    (/\ SecondCallDone
     /\ first.pc = "summarised"
     /\ DistinctTimes(ListData(first.data))) =>
        /\ pc # "raised"
        /\ df = first.df
        /\ city = first.city
        /\ pc = "summarised" => summary = first.summary

\* the digest of three slots handed in in another order than before
C18_Witness ==
    /\ SecondCallDone
    /\ pc = "summarised"
    /\ Len(ListData(data)) = 3
    /\ DistinctTimes(ListData(first.data))
    /\ ListData(data)[1] # ListData(first.data)[1]
    /\ summary = first.summary
    /\ summary.total_slots = 3

====
